---- MODULE Spec2Model ----
(***************************************************************************)
(* Model of sumariza-ai.  Its components, each with its own specification: *)
(*   - the browser session manager (BrowserPool, in                        *)
(*     internal/adapters/scraper/chromedp.go): Spec, FairSpec;             *)
(*   - text cleaning (cleanTextPreserveNewlines): TextSpec;                *)
(*   - the parser (parseHTML and its field extractors): ParseSpec;         *)
(*   - the scrape orchestrator (TwitterScraper.Scrape): ScrapeSpec;        *)
(*   - the tweet cache (MemoryCache): CacheSpec;                           *)
(*   - the use cases (GetTweetUseCase, ScrapeTweetUseCase): UseCaseSpec;   *)
(*   - the rate limiter and the handlers (RateLimiter): LimiterSpec;       *)
(*   - the log buffer (log.Buffer): BufferSpec.                            *)
(* A specification moves the variables of its component and leaves the     *)
(* others as their constructors set them.                                  *)
(*                                                                         *)
(* Callers of the pool are goroutines that call WithTab / WithTabCtx /     *)
(* Execute or Scrape on one pool.  The three pool entry points share their *)
(* prefix (Lock, caller-context check, ensureBrowserRunning) and their     *)
(* suffix (cleanTab, resetIdleTimer, deferred Unlock); they differ in the  *)
(* step they run in between, so the step function is drawn when it is      *)
(* entered.                                                                *)
(***************************************************************************)
EXTENDS Naturals, FiniteSets, Sequences, TLC

\* Number of concurrent caller goroutines.
NThreads == 2
\* Idle-timer callbacks that may be waiting for the lock at the same time.
MaxPending == 1

Threads == 1..NThreads

CtxKinds == {"background", "cancel", "deadline"}
FnKinds == {"WithTabCtx", "Execute", "Scrape"}
StartOutcomes == {"ok", "procFail", "tabFail"}

VARIABLES
    mu,         \* bp.mu: 0 when free, else the caller that holds it
    bp,         \* the BrowserPool fields (handles: TRUE when non-nil)
    proc,       \* the Chrome process the handles refer to
    orphans,    \* processes still alive that no handle can cancel any more
    idleTimer,  \* bp.idleTimer
    pendingCb,  \* idle callbacks that fired and wait for bp.mu
    pc,         \* where each caller is
    ctx,        \* the context each caller passed in
    call,       \* the step function each caller is running (recovered: this
                \* call restarted the browser after a failed probe)
    fnErr,      \* what the step function returned (held until the return)
    last,       \* the result of the call that returned most recently
    lastDown,   \* why the session was last torn down, "none" once restarted
    html,       \* parser: the document handed to parseHTML
    parsed,     \* parser: what parseHTML returned, empty before it ran
    text,       \* text cleaning: the string handed to cleanTextPreserveNewlines
    cleaned,    \* text cleaning: the strings returned so far
    scraped,    \* Scrape: what it returned (record and error), empty before
    now,        \* cache: time.Now()
    tweets,     \* cache: c.tweets, per key the entry stored (empty: no entry)
    lastSet,    \* cache: per key the tweet and time of the most recent Set
    reader,     \* cache: the key a Get found expired and is about to delete
    sweeper,    \* cache: the key cleanup found expired and is about to delete
    got,        \* cache: what the last Get that returned has returned
    uc,         \* use case: where the GetTweetUseCase.Execute call is
    ret,        \* use case: what the last Execute returned, empty during one
    scrapeOut,  \* use case: the last ScrapeTweetUseCase.Execute, in and out
    scrapes,    \* limiter: rl.scrapes, per client the recorded times
    served,     \* limiter: per client the pipeline calls its requests started
    entries,    \* log buffer: the b.entries channel, oldest first
    closed,     \* log buffer: b.closed
    done,       \* log buffer: TRUE once b.done is closed
    worker,     \* log buffer: where the worker goroutine is
    sender,     \* log buffer: where each Send call is
    closer,     \* log buffer: where the Close call is
    dropped,    \* log buffer: b.dropped
    delivered,  \* log buffer: per entry how often deliver wrote it
    sent,       \* log buffer: the number of Send calls so far
    fate        \* log buffer: per entry what has become of it

poolVars == <<mu, bp, proc, orphans, idleTimer, pendingCb, pc, ctx, call, fnErr,
              last, lastDown>>
parseVars == <<html, parsed>>
textVars == <<text, cleaned>>
scrapeVars == <<scraped>>
cacheVars == <<now, tweets, lastSet, reader, sweeper, got>>
usecaseVars == <<uc, ret, scrapeOut>>
limiterVars == <<scrapes, served>>
bufferVars == <<entries, closed, done, worker, sender, closer, dropped,
                delivered, sent, fate>>

\* The state of the use cases, the rate limiter and the log buffer.
appVars == <<usecaseVars, limiterVars, bufferVars>>

\* The state of the components other than the pool.
aux == <<parseVars, textVars, scrapeVars, cacheVars, appVars>>

vars == <<poolVars, aux>>

session == <<bp, proc, orphans, idleTimer, pendingCb>>

NoHandles == [running |-> FALSE, allocCtx |-> FALSE, browserCtx |-> FALSE,
              tabCtx |-> FALSE, tabCancel |-> FALSE, cancel |-> FALSE]

AllHandles == [running |-> TRUE, allocCtx |-> TRUE, browserCtx |-> TRUE,
               tabCtx |-> TRUE, tabCancel |-> TRUE, cancel |-> TRUE]

NoCtx == [kind |-> "background", done |-> FALSE]
NoCall == [kind |-> "none", step |-> 0, blocked |-> FALSE, recovered |-> FALSE]

\* Mutant of NewBrowserPool: Chrome is started by the constructor.
NewBrowserPool_Eager == AllHandles

\* NewBrowserPool: the fields of a freshly constructed pool (lazy start).
NewBrowserPool == NoHandles

\* ctx.Err() of a caller context that is done.
CtxErr(c) == IF c.kind = "deadline" THEN "DeadlineExceeded" ELSE "Canceled"

\* bp.tabCtx.Err() != nil: the tab context is cancelled once bp.cancel or
\* bp.tabCancel ran for its process.
tabCtxErr(p) == p = "dead"

Live(p) == p \in {"alive", "crashed"}

\* Mutant of isHealthyLocked: no probe, the flag and the handle are trusted.
isHealthyLocked_FlagOnly(b, p) == b.running /\ b.tabCtx

\* isHealthyLocked: running, a tab handle, context not cancelled, probe ok.
isHealthyLocked(b, p) ==
    /\ b.running
    /\ b.tabCtx
    /\ ~tabCtxErr(p)
    /\ p = "alive"

\* Mutant of startBrowserLocked: the previous instance is not cancelled.
startBrowserLocked_NoCancel(b, p, o, outcome) ==
    IF outcome = "ok"
    THEN [bp |-> AllHandles, proc |-> "alive",
          orphans |-> IF Live(p) THEN o + 1 ELSE o, err |-> "nil"]
    ELSE [bp |-> b, proc |-> p, orphans |-> o, err |-> "StartupError"]

\* Mutant of startBrowserLocked: a successful start does not set bp.running.
startBrowserLocked_NoRunningFlag(b, p, o, outcome) ==
    LET p1 == IF b.cancel /\ Live(p) THEN "dead" ELSE p
    IN  IF outcome = "ok"
        THEN [bp |-> [AllHandles EXCEPT !.running = b.running], proc |-> "alive",
              orphans |-> IF Live(p1) THEN o + 1 ELSE o, err |-> "nil"]
        ELSE [bp |-> b, proc |-> p1, orphans |-> o, err |-> "StartupError"]

\* startBrowserLocked: cancel the previous instance, start Chrome, create tab.
startBrowserLocked(b, p, o, outcome) ==
    LET p1 == IF b.cancel /\ Live(p) THEN "dead" ELSE p
    IN  IF outcome = "ok"
        THEN [bp |-> AllHandles, proc |-> "alive",
              orphans |-> IF Live(p1) THEN o + 1 ELSE o, err |-> "nil"]
        ELSE [bp |-> b, proc |-> p1, orphans |-> o, err |-> "StartupError"]

\* stopBrowserLocked: no-op unless running; cancel and clear every handle.
stopBrowserLocked(b, p, o) ==
    IF ~b.running
    THEN [bp |-> b, proc |-> p, orphans |-> o]
    ELSE [bp |-> NoHandles, proc |-> "none",
          orphans |-> IF Live(p) /\ ~b.cancel THEN o + 1 ELSE o]

\* Mutant of ensureBrowserRunning: a failed probe is returned as an error.
ensureBrowserRunning_ProbeError(b, p, o, outcome) ==
    IF isHealthyLocked(b, p)
    THEN [bp |-> b, proc |-> p, orphans |-> o, err |-> "nil"]
    ELSE IF b.running
         THEN [bp |-> b, proc |-> p, orphans |-> o, err |-> "StartupError"]
         ELSE startBrowserLocked(b, p, o, outcome)

\* ensureBrowserRunning: nothing when healthy, otherwise (re)start.
ensureBrowserRunning(b, p, o, outcome) ==
    IF isHealthyLocked(b, p)
    THEN [bp |-> b, proc |-> p, orphans |-> o, err |-> "nil"]
    ELSE startBrowserLocked(b, p, o, outcome)

\* resetIdleTimer: stop the old timer and arm a new one.
resetIdleTimer(timer) == "armed"

\* Mutant of stopIdleTimer: the timer is left as it is.
stopIdleTimer_Keep(timer) == timer

\* stopIdleTimer: stop and forget the timer.
stopIdleTimer(timer) == "nil"

\* The context handed to the step function is bp.tabCtx, which derives from
\* context.Background() through the allocator and browser contexts.
FnCtxHasDeadline(c) == FALSE
FnCtxDone(c, p) == tabCtxErr(p)

\* The other components as their constructors leave them, before any use.
ParseIdle == html = <<>> /\ parsed = <<>>
TextIdle == text = <<>> /\ cleaned = <<>>
ScrapeIdle == scraped = <<>>

\* The keys the cache is used with: "/" username "/status/" id.
Usernames == {<<"u">>}
TweetIDs == {<<"1">>, <<"2">>}
NormalizedKey(username, tweetID) ==
    <<"/">> \o username \o <<"/", "status", "/">> \o tweetID
Keys == {NormalizedKey(u, id) : u \in Usernames, id \in TweetIDs}

\* NewMemoryCache: no entry, the cleanup goroutine waiting for its ticker.
NewMemoryCache ==
    /\ now = 0
    /\ tweets = [k \in Keys |-> <<>>]
    /\ lastSet = [k \in Keys |-> <<>>]
    /\ reader = <<>>
    /\ sweeper = <<>>
    /\ got = <<>>

\* No GetTweetUseCase.Execute call yet.
NoExecute == [pc |-> "idle", username |-> <<>>, tweetID |-> <<>>,
              tweet |-> <<>>, scraped |-> FALSE]
UseCaseIdle == uc = NoExecute /\ ret = <<>> /\ scrapeOut = <<>>

\* The clients (c.IP()) of the web front end.
Clients == {"ip1", "ip2"}

\* NewRateLimiter: an empty map.
NewRateLimiter ==
    /\ scrapes = [ip \in Clients |-> <<>>]
    /\ served = [ip \in Clients |-> 0]

\* The capacity of b.entries, the Send goroutines and the Send calls.
Capacity == 1
NSenders == 2
MaxSends == 3
Senders == 1..NSenders
EntryIDs == 1..MaxSends

NoSend == [pc |-> "idle", entry |-> 0, old |-> 0]

\* NewBuffer: an empty channel, the worker started.
NewBuffer ==
    /\ entries = <<>> /\ closed = 0 /\ done = FALSE
    /\ worker = [pc |-> "select", entry |-> 0]
    /\ sender = [s \in Senders |-> NoSend]
    /\ closer = [pc |-> "idle", entry |-> 0, before |-> {}]
    /\ dropped = 0
    /\ delivered = [e \in EntryIDs |-> 0]
    /\ sent = 0
    /\ fate = [e \in EntryIDs |-> "none"]

AppIdle == UseCaseIdle /\ NewRateLimiter /\ NewBuffer

AuxIdle ==
    ParseIdle /\ TextIdle /\ ScrapeIdle /\ NewMemoryCache /\ AppIdle

\* The pool as NewBrowserPool returns it, no caller in a call.
PoolInit ==
    /\ mu = 0
    /\ bp = NewBrowserPool
    /\ proc = "none"
    /\ orphans = 0
    /\ idleTimer = "nil"
    /\ pendingCb = 0
    /\ pc = [t \in Threads |-> "idle"]
    /\ ctx = [t \in Threads |-> NoCtx]
    /\ call = [t \in Threads |-> NoCall]
    /\ fnErr = [t \in Threads |-> "nil"]
    /\ last = "none"
    /\ lastDown = "none"

\* The pool specification starts with a fresh pool.
Init == PoolInit /\ AuxIdle

\* A goroutine calls WithTab (background), WithTabCtx, Execute or Scrape and
\* reaches bp.mu.Lock().
Call(t) ==
    /\ pc[t] = "idle"
    /\ \E k \in CtxKinds : ctx' = [ctx EXCEPT ![t] = [kind |-> k, done |-> FALSE]]
    /\ pc' = [pc EXCEPT ![t] = "lock"]
    /\ UNCHANGED <<mu, session, call, fnErr, last, lastDown>>
    /\ UNCHANGED aux

\* The caller cancels its context, or its deadline passes.
CtxFire(t) ==
    /\ pc[t] # "idle"
    /\ ctx[t].kind # "background"
    /\ ~ctx[t].done
    /\ ctx' = [ctx EXCEPT ![t].done = TRUE]
    /\ UNCHANGED <<mu, session, pc, call, fnErr, last, lastDown>>
    /\ UNCHANGED aux

\* Mutant of Acquire: the lock does not exclude a second caller.
Acquire_NoLock(t) ==
    /\ pc[t] = "lock"
    /\ IF ctx[t].done
       THEN /\ pc' = [pc EXCEPT ![t] = "idle"]
            /\ last' = CtxErr(ctx[t])
            /\ ctx' = [ctx EXCEPT ![t] = NoCtx]
            /\ UNCHANGED mu
       ELSE /\ pc' = [pc EXCEPT ![t] = "ensure"]
            /\ mu' = t
            /\ UNCHANGED <<last, ctx>>
    /\ UNCHANGED <<session, call, fnErr, lastDown>>
    /\ UNCHANGED aux

\* Mutant of Acquire: the caller context is not checked after Lock.
Acquire_NoCtxCheck(t) ==
    /\ pc[t] = "lock"
    /\ mu = 0
    /\ pc' = [pc EXCEPT ![t] = "ensure"]
    /\ mu' = t
    /\ UNCHANGED <<session, call, fnErr, lastDown, last, ctx>>
    /\ UNCHANGED aux

\* bp.mu.Lock() is granted, then the caller context is checked: a context
\* that is done returns its error at once (the deferred Unlock runs).
Acquire(t) ==
    /\ pc[t] = "lock"
    /\ mu = 0
    /\ IF ctx[t].done
       THEN /\ pc' = [pc EXCEPT ![t] = "idle"]
            /\ last' = CtxErr(ctx[t])
            /\ ctx' = [ctx EXCEPT ![t] = NoCtx]
            /\ UNCHANGED mu
       ELSE /\ pc' = [pc EXCEPT ![t] = "ensure"]
            /\ mu' = t
            /\ UNCHANGED <<last, ctx>>
    /\ UNCHANGED <<session, call, fnErr, lastDown>>
    /\ UNCHANGED aux

\* The step function that is entered: fn of WithTabCtx, chromedp.Run of
\* Execute, or the closure of Scrape, which starts at its navigate step.
EnterFn(k) == [kind |-> k, step |-> IF k = "Scrape" THEN 1 ELSE 0,
               blocked |-> FALSE, recovered |-> FALSE]

\* ensureBrowserRunning under the lock; a startup error returns.
Ensure(t) ==
    /\ pc[t] = "ensure"
    /\ \E outcome \in StartOutcomes :
         LET r == ensureBrowserRunning(bp, proc, orphans, outcome)
         IN  /\ bp' = r.bp
             /\ proc' = r.proc
             /\ orphans' = r.orphans
             /\ IF r.err = "nil"
                THEN /\ pc' = [pc EXCEPT ![t] = "fn"]
                     /\ \E k \in FnKinds :
                          call' = [call EXCEPT ![t] =
                                     [EnterFn(k) EXCEPT !.recovered =
                                        bp.running /\ ~isHealthyLocked(bp, proc)]]
                     /\ lastDown' = IF isHealthyLocked(bp, proc)
                                    THEN lastDown ELSE "none"
                     /\ UNCHANGED <<mu, last, ctx>>
                ELSE /\ pc' = [pc EXCEPT ![t] = "idle"]
                     /\ mu' = 0
                     /\ last' = r.err
                     /\ lastDown' = "startFail"
                     /\ ctx' = [ctx EXCEPT ![t] = NoCtx]
                     /\ UNCHANGED call
    /\ UNCHANGED <<idleTimer, pendingCb, fnErr>>
    /\ UNCHANGED aux

\* fn of WithTabCtx returns nil or an error.
FnReturn(t) ==
    /\ pc[t] = "fn"
    /\ call[t].kind = "WithTabCtx"
    /\ \E r \in {"nil", "StepError"} : fnErr' = [fnErr EXCEPT ![t] = r]
    /\ pc' = [pc EXCEPT ![t] = "post"]
    /\ UNCHANGED <<mu, session, ctx, call, last, lastDown>>
    /\ UNCHANGED aux

\* Mutant of FnPanic: Unlock is a plain call after fn, not a deferred one.
FnPanic_NoUnlock(t) ==
    /\ pc[t] = "fn"
    /\ call[t].kind = "WithTabCtx"
    /\ pc' = [pc EXCEPT ![t] = "idle"]
    /\ last' = "panic"
    /\ ctx' = [ctx EXCEPT ![t] = NoCtx]
    /\ call' = [call EXCEPT ![t] = NoCall]
    /\ UNCHANGED <<mu, session, fnErr, lastDown>>
    /\ UNCHANGED aux

\* fn of WithTabCtx panics: the stack unwinds through the deferred Unlock,
\* skipping cleanTab and resetIdleTimer.
FnPanic(t) ==
    /\ pc[t] = "fn"
    /\ call[t].kind = "WithTabCtx"
    /\ pc' = [pc EXCEPT ![t] = "idle"]
    /\ mu' = 0
    /\ last' = "panic"
    /\ ctx' = [ctx EXCEPT ![t] = NoCtx]
    /\ call' = [call EXCEPT ![t] = NoCall]
    /\ UNCHANGED <<session, fnErr, lastDown>>
    /\ UNCHANGED aux

\* Execute: chromedp.Run(bp.tabCtx, actions...) succeeds only on a live tab.
ExecuteRun(t) ==
    /\ pc[t] = "fn"
    /\ call[t].kind = "Execute"
    /\ \E r \in {"nil", "StepError"} :
         /\ r = "nil" => proc = "alive"
         /\ fnErr' = [fnErr EXCEPT ![t] = r]
    /\ pc' = [pc EXCEPT ![t] = "post"]
    /\ UNCHANGED <<mu, session, ctx, call, last, lastDown>>
    /\ UNCHANGED aux

\* The checkpoint Scrape runs after each of its first three steps: it reads
\* the Err() of the context it was handed.
Checkpoint(c, p) == FnCtxDone(c, p)

\* One step of Scrape's closure succeeds (1 navigate, 2 wait for the
\* container, 3 wait for the text, 4 capture).  A visibility wait returns
\* only once the element is visible; the checkpoint follows steps 1 to 3.
ScrapeStep(t) ==
    /\ pc[t] = "fn"
    /\ call[t].kind = "Scrape"
    /\ proc = "alive"
    /\ ~call[t].blocked
    /\ IF call[t].step < 4
       THEN IF Checkpoint(ctx[t], proc)
            THEN /\ fnErr' = [fnErr EXCEPT ![t] = "StepError"]
                 /\ pc' = [pc EXCEPT ![t] = "post"]
                 /\ UNCHANGED call
            ELSE /\ \E b \in BOOLEAN :
                      call' = [call EXCEPT ![t] =
                                 [call[t] EXCEPT !.step = call[t].step + 1,
                                                 !.blocked = b /\ call[t].step < 3]]
                 /\ UNCHANGED <<fnErr, pc>>
       ELSE /\ fnErr' = [fnErr EXCEPT ![t] = "nil"]
            /\ pc' = [pc EXCEPT ![t] = "post"]
            /\ UNCHANGED call
    /\ UNCHANGED <<mu, session, ctx, last, lastDown>>
    /\ UNCHANGED aux

\* One step of Scrape's closure fails: chromedp.Run returns an error on a
\* dead tab, navigation and capture can also fail on a live one.
ScrapeFail(t) ==
    /\ pc[t] = "fn"
    /\ call[t].kind = "Scrape"
    /\ proc # "alive" \/ call[t].step \in {1, 4}
    /\ fnErr' = [fnErr EXCEPT ![t] = "StepError"]
    /\ pc' = [pc EXCEPT ![t] = "post"]
    /\ UNCHANGED <<mu, session, ctx, call, last, lastDown>>
    /\ UNCHANGED aux

\* Mutant of Post: the lock is not released on the normal return.
Post_NoUnlock(t) ==
    /\ pc[t] = "post"
    /\ idleTimer' = resetIdleTimer(idleTimer)
    /\ last' = fnErr[t]
    /\ pc' = [pc EXCEPT ![t] = "idle"]
    /\ ctx' = [ctx EXCEPT ![t] = NoCtx]
    /\ call' = [call EXCEPT ![t] = NoCall]
    /\ fnErr' = [fnErr EXCEPT ![t] = "nil"]
    /\ UNCHANGED <<mu, bp, proc, orphans, pendingCb, lastDown>>
    /\ UNCHANGED aux

\* After the step: cleanTab (a no-op), resetIdleTimer, return err, Unlock.
Post(t) ==
    /\ pc[t] = "post"
    /\ idleTimer' = resetIdleTimer(idleTimer)
    /\ mu' = 0
    /\ last' = fnErr[t]
    /\ pc' = [pc EXCEPT ![t] = "idle"]
    /\ ctx' = [ctx EXCEPT ![t] = NoCtx]
    /\ call' = [call EXCEPT ![t] = NoCall]
    /\ fnErr' = [fnErr EXCEPT ![t] = "nil"]
    /\ UNCHANGED <<bp, proc, orphans, pendingCb, lastDown>>
    /\ UNCHANGED aux

\* The idle timer expires: its callback goroutine starts and waits for bp.mu.
TimerFire ==
    /\ idleTimer = "armed"
    /\ pendingCb < MaxPending
    /\ idleTimer' = "fired"
    /\ pendingCb' = pendingCb + 1
    /\ UNCHANGED <<mu, bp, proc, orphans, pc, ctx, call, fnErr, last, lastDown>>
    /\ UNCHANGED aux

\* Mutant of TimerCallback: the callback does not take bp.mu.
TimerCallback_NoLock ==
    /\ pendingCb > 0
    /\ pendingCb' = pendingCb - 1
    /\ LET r == IF bp.running THEN stopBrowserLocked(bp, proc, orphans)
                ELSE [bp |-> bp, proc |-> proc, orphans |-> orphans]
       IN  /\ bp' = r.bp
           /\ proc' = r.proc
           /\ orphans' = r.orphans
    /\ lastDown' = IF bp.running THEN "idle" ELSE lastDown
    /\ UNCHANGED <<mu, idleTimer, pc, ctx, call, fnErr, last>>
    /\ UNCHANGED aux

\* The idle callback of resetIdleTimer runs under the lock.
TimerCallback ==
    /\ pendingCb > 0
    /\ mu = 0
    /\ pendingCb' = pendingCb - 1
    /\ LET r == IF bp.running THEN stopBrowserLocked(bp, proc, orphans)
                ELSE [bp |-> bp, proc |-> proc, orphans |-> orphans]
       IN  /\ bp' = r.bp
           /\ proc' = r.proc
           /\ orphans' = r.orphans
    /\ lastDown' = IF bp.running THEN "idle" ELSE lastDown
    /\ UNCHANGED <<mu, idleTimer, pc, ctx, call, fnErr, last>>
    /\ UNCHANGED aux

\* What the body of Close does to the session: stopIdleTimer, then
\* stopBrowserLocked.
CloseEffect(b, p, o, timer) ==
    LET r == stopBrowserLocked(b, p, o)
    IN  [bp |-> r.bp, proc |-> r.proc, orphans |-> r.orphans,
         idleTimer |-> stopIdleTimer(timer)]

\* Mutant of Close: the body runs without bp.mu.
Close_NoLock ==
    /\ LET r == CloseEffect(bp, proc, orphans, idleTimer)
       IN  /\ bp' = r.bp
           /\ proc' = r.proc
           /\ orphans' = r.orphans
           /\ idleTimer' = r.idleTimer
    /\ lastDown' = "close"
    /\ UNCHANGED <<mu, pendingCb, pc, ctx, call, fnErr, last>>
    /\ UNCHANGED aux

\* Close: stopIdleTimer and stopBrowserLocked under the lock.
Close ==
    /\ mu = 0
    /\ LET r == CloseEffect(bp, proc, orphans, idleTimer)
       IN  /\ bp' = r.bp
           /\ proc' = r.proc
           /\ orphans' = r.orphans
           /\ idleTimer' = r.idleTimer
    /\ lastDown' = "close"
    /\ UNCHANGED <<mu, pendingCb, pc, ctx, call, fnErr, last>>
    /\ UNCHANGED aux

\* Chrome dies or stops answering.
Crash ==
    /\ proc = "alive"
    /\ proc' = "crashed"
    /\ UNCHANGED <<mu, bp, orphans, idleTimer, pendingCb, pc, ctx, call, fnErr,
                   last, lastDown>>
    /\ UNCHANGED aux

ThreadStep(t) ==
    \/ Acquire(t)
    \/ Ensure(t)
    \/ FnReturn(t)
    \/ FnPanic(t)
    \/ ExecuteRun(t)
    \/ ScrapeStep(t)
    \/ ScrapeFail(t)
    \/ Post(t)

Next ==
    \/ \E t \in Threads : Call(t)
    \/ \E t \in Threads : CtxFire(t)
    \/ \E t \in Threads : ThreadStep(t)
    \/ TimerFire
    \/ TimerCallback
    \/ Close
    \/ Crash

Spec == Init /\ [][Next]_vars

\* Fairness the Go runtime gives: every goroutine that can step does step
\* (sync.Mutex hands the lock to a waiter that has waited long enough), a
\* deadline passes, and a fired timer callback runs.
FairSpec ==
    /\ Spec
    /\ \A t \in Threads : WF_vars(ThreadStep(t)) /\ SF_vars(Acquire(t))
    /\ \A t \in Threads : WF_vars(CtxFire(t) /\ ctx[t].kind = "deadline")
    /\ WF_vars(TimerCallback)

InFn(t) == pc[t] = "fn"

(***************************************************************************)
(* Text cleaning (cleanTextPreserveNewlines).  A string is a sequence of   *)
(* characters; "a" stands for any character that is not white space.       *)
(***************************************************************************)
\* Longest string handed to cleanTextPreserveNewlines.
MaxLen == 6

Chars == {"a", " ", "\t", "\n"}

\* The sequences over S of length n or less.
RECURSIVE SeqsUpTo(_, _)
SeqsUpTo(S, n) ==
    IF n = 0 THEN {<<>>}
    ELSE LET shorter == SeqsUpTo(S, n - 1)
         IN  shorter \cup {Append(s, c) : s \in {x \in shorter : Len(x) = n - 1},
                                          c \in S}

\* The class [^\S\n]: white space other than the newline.
HSpace == {" ", "\t"}
\* The white space strings.TrimSpace cuts.
Space == {" ", "\t", "\n"}

\* The longest prefix of s whose characters are all in cls.
RECURSIVE RunLen(_, _)
RunLen(s, cls) ==
    IF s = <<>> \/ Head(s) \notin cls THEN 0 ELSE 1 + RunLen(Tail(s), cls)

Drop(s, n) == SubSeq(s, n + 1, Len(s))

\* re.ReplaceAllString(text, " ") with re = [^\S\n]+
RECURSIVE ReplaceHSpaceRuns(_)
ReplaceHSpaceRuns(s) ==
    IF s = <<>> THEN <<>>
    ELSE IF Head(s) \in HSpace
         THEN <<" ">> \o ReplaceHSpaceRuns(Drop(s, RunLen(s, HSpace)))
         ELSE <<Head(s)>> \o ReplaceHSpaceRuns(Tail(s))

\* re2.ReplaceAllString(text, "\n\n") with re2 = \n{3,}
RECURSIVE ReplaceNewlineRuns(_)
ReplaceNewlineRuns(s) ==
    IF s = <<>> THEN <<>>
    ELSE IF Head(s) = "\n"
         THEN LET n == RunLen(s, {"\n"})
              IN  (IF n >= 3 THEN <<"\n", "\n">> ELSE SubSeq(s, 1, n))
                    \o ReplaceNewlineRuns(Drop(s, n))
         ELSE <<Head(s)>> \o ReplaceNewlineRuns(Tail(s))

\* The longest prefix of s that does not hold sep.
RECURSIVE RunUntil(_, _)
RunUntil(s, sep) ==
    IF s = <<>> \/ Head(s) = sep THEN 0 ELSE 1 + RunUntil(Tail(s), sep)

\* strings.Split(s, sep): the pieces, one more than there are separators.
RECURSIVE Split(_, _)
Split(s, sep) ==
    LET n == RunUntil(s, sep)
    IN  IF n = Len(s) THEN <<s>>
        ELSE <<SubSeq(s, 1, n)>> \o Split(Drop(s, n + 1), sep)

\* strings.Join(lines, "\n")
RECURSIVE Join(_)
Join(lines) ==
    IF Len(lines) = 1 THEN lines[1]
    ELSE lines[1] \o <<"\n">> \o Join(Tail(lines))

Reverse(s) == [i \in 1..Len(s) |-> s[Len(s) + 1 - i]]

\* strings.TrimSpace: leading and trailing white space cut.
TrimSpace(s) ==
    LET front == Drop(s, RunLen(s, Space))
    IN  SubSeq(front, 1, Len(front) - RunLen(Reverse(front), Space))

\* cleanTextPreserveNewlines, step by step as the code runs it.
cleanTextPreserveNewlines(s) ==
    LET spaced == ReplaceHSpaceRuns(s)
        collapsed == ReplaceNewlineRuns(spaced)
        lines == Split(collapsed, "\n")
        trimmed == [i \in 1..Len(lines) |-> TrimSpace(lines[i])]
    IN  TrimSpace(Join(trimmed))

TextInit ==
    /\ text \in SeqsUpTo(Chars, MaxLen)
    /\ cleaned = <<>>
    /\ PoolInit /\ ParseIdle /\ ScrapeIdle /\ NewMemoryCache /\ AppIdle

\* A caller cleans the text, then cleans the result once more.
Clean ==
    /\ Len(cleaned) < 2
    /\ cleaned' = Append(cleaned, cleanTextPreserveNewlines(
                       IF cleaned = <<>> THEN text ELSE cleaned[Len(cleaned)]))
    /\ UNCHANGED <<text, poolVars, appVars, parseVars, scrapeVars, cacheVars>>

TextNext == Clean

TextSpec == TextInit /\ [][TextNext]_vars

\* Three newlines in a row somewhere in s.
HasTripleNewline(s) ==
    \E i \in 1..Len(s) : RunLen(Drop(s, i - 1), {"\n"}) >= 3

\* Some line of s starts or ends with a space or a tab.
HasUntrimmedLine(s) ==
    LET lines == Split(s, "\n")
    IN  \E i \in 1..Len(lines) :
            /\ lines[i] # <<>>
            /\ lines[i][1] \in HSpace \/ lines[i][Len(lines[i])] \in HSpace

(***************************************************************************)
(* The parser (parseHTML and the field extractors).  A document is the     *)
(* sequence of the elements the extractors look for; an element has its    *)
(* data-testid or tag (el), the attribute or class text the extractors     *)
(* can see (attr) and its content (body), a string in which a tag is one   *)
(* symbol.  None of the contents holds an anchor, which preserveLinks      *)
(* would rewrite.                                                          *)
(***************************************************************************)
\* Longest document handed to parseHTML.
MaxDoc == 3

El(e, a, b) == [el |-> e, attr |-> a, body |-> b]

Tags == {"<span>", "</span>", "<img>"}

\* The name block: "Name @handle", a name alone, a handle alone.
UserNameBodies == {<<"a", " ", "@", "a">>, <<"a">>, <<"@", "a">>}
\* The avatar container with its image on the same line, or on the next.
AvatarBodies == {<<"<img>">>, <<"\n", "<img>">>}
\* What the verification marker carries as tier hint.
TierHints == {"", "gold", "GOLD", "organization", "gray"}
\* The text container: blank, plain text, text inside a span.
TextBodies == {<<" ", "\n">>, <<"a">>, <<"<span>", "a", "</span>">>}

Elems ==
    {El("User-Name", "", b) : b \in UserNameBodies}
      \cup {El("a", "href=/b/status/", <<>>)}
      \cup {El("Tweet-User-Avatar", "", b) : b \in AvatarBodies}
      \cup {El("icon-verified", h, <<>>) : h \in TierHints}
      \cup {El("span", "dir=rtl", <<"a">>), El("span", "", <<"gold">>)}
      \cup {El("tweetText", "", b) : b \in TextBodies}
      \cup {El("tweetText", "dir=rtl", <<"a">>)}
      \cup {El("quoteTweet", "", <<>>), El("time", "datetime", <<>>)}

Docs == SeqsUpTo(Elems, MaxDoc)

\* The places of doc, from index from on, whose element is e.
Places(doc, e, from) == {i \in from..Len(doc) : doc[i].el = e}

Min(S) == CHOOSE i \in S : \A j \in S : i <= j

\* strings.Contains(html, w) for a word w.
ContainsWord(doc, w) ==
    \E i \in 1..Len(doc) :
        doc[i].attr = w \/ \E k \in 1..Len(doc[i].body) : doc[i].body[k] = w

IsText(c) == c \notin Tags

\* re.ReplaceAllString(html, "") with re = <[^>]*>
RemoveTags(s) == SelectSeq(s, IsText)

\* re.ReplaceAllString(text, " ") with re = \s+
RECURSIVE ReplaceSpaceRuns(_)
ReplaceSpaceRuns(s) ==
    IF s = <<>> THEN <<>>
    ELSE IF Head(s) \in Space
         THEN <<" ">> \o ReplaceSpaceRuns(Drop(s, RunLen(s, Space)))
         ELSE <<Head(s)>> \o ReplaceSpaceRuns(Tail(s))

\* cleanText: every white-space run becomes one space, then TrimSpace.
cleanText(s) == TrimSpace(ReplaceSpaceRuns(s))

\* stripHTML: tags removed, then cleanText.
stripHTML(s) == cleanText(RemoveTags(s))

\* stripHTMLKeepLinks: tags removed (no content holds a line-break tag).
stripHTMLKeepLinks(s) == RemoveTags(s)

\* extractNameAndHandle: the first name block, split at '@'.
extractNameAndHandle(doc) ==
    LET at == Places(doc, "User-Name", 1)
    IN  IF at = {} THEN [name |-> <<>>, handle |-> <<>>]
        ELSE LET content == cleanText(stripHTML(doc[Min(at)].body))
                 parts == Split(content, "@")
             IN  IF Len(parts) >= 2
                 THEN LET handlePart == cleanText(parts[2])
                      IN  [name |-> cleanText(parts[1]),
                           handle |-> SubSeq(handlePart, 1,
                                             RunUntil(handlePart, " "))]
                 ELSE [name |-> cleanText(parts[1]), handle |-> <<>>]

\* extractHandleFromURL: the handle in the first status link.
extractHandleFromURL(doc) ==
    IF Places(doc, "a", 1) = {} THEN <<>> ELSE <<"b">>

\* extractAvatar: the first avatar container whose image follows on the
\* same line ('.' does not match a newline).
extractAvatar(doc) ==
    IF \E i \in Places(doc, "Tweet-User-Avatar", 1) : doc[i].body[1] = "<img>"
    THEN <<"a">> ELSE <<>>

\* detectVerifiedType
detectVerifiedType(doc) ==
    IF ContainsWord(doc, "gold") \/ ContainsWord(doc, "Gold") THEN "gold"
    ELSE IF ContainsWord(doc, "gray") \/ ContainsWord(doc, "Gray") THEN "gray"
    ELSE "blue"

\* Mutant of parseAuthor: a missing avatar does not make the record partial.
parseAuthor_AvatarOptional(doc) ==
    LET nh == extractNameAndHandle(doc)
        handle == IF nh.handle # <<>> THEN nh.handle
                  ELSE extractHandleFromURL(doc)
        verified == Places(doc, "icon-verified", 1) # {}
    IN  [author |-> [Name |-> nh.name, Handle |-> handle,
                     AvatarURL |-> extractAvatar(doc), Verified |-> verified,
                     VerifiedType |-> IF verified THEN detectVerifiedType(doc)
                                      ELSE ""],
         partial |-> nh.name = <<>> \/ handle = <<>>]

\* Mutant of parseAuthor: the status link is consulted before the name block.
parseAuthor_LinkFirst(doc) ==
    LET nh == extractNameAndHandle(doc)
        link == extractHandleFromURL(doc)
        handle == IF link # <<>> THEN link ELSE nh.handle
        avatar == extractAvatar(doc)
        verified == Places(doc, "icon-verified", 1) # {}
    IN  [author |-> [Name |-> nh.name, Handle |-> handle,
                     AvatarURL |-> avatar, Verified |-> verified,
                     VerifiedType |-> IF verified THEN detectVerifiedType(doc)
                                      ELSE ""],
         partial |-> nh.name = <<>> \/ handle = <<>> \/ avatar = <<>>]

\* parseAuthor: the author and whether a field of it was not found.
parseAuthor(doc) ==
    LET nh == extractNameAndHandle(doc)
        handle == IF nh.handle # <<>> THEN nh.handle
                  ELSE extractHandleFromURL(doc)
        avatar == extractAvatar(doc)
        verified == Places(doc, "icon-verified", 1) # {}
    IN  [author |-> [Name |-> nh.name, Handle |-> handle,
                     AvatarURL |-> avatar, Verified |-> verified,
                     VerifiedType |-> IF verified THEN detectVerifiedType(doc)
                                      ELSE ""],
         partial |-> nh.name = <<>> \/ handle = <<>> \/ avatar = <<>>]

\* extractTweetText: the content of the first text container, cleaned.
extractTweetText(doc) ==
    LET at == Places(doc, "tweetText", 1)
    IN  IF at = {} THEN <<>>
        ELSE cleanTextPreserveNewlines(stripHTMLKeepLinks(doc[Min(at)].body))

\* extractTextDirection
extractTextDirection(doc) ==
    IF ContainsWord(doc, "dir=rtl") THEN "rtl" ELSE "ltr"

\* extractTimestamp
extractTimestamp(doc) ==
    IF Places(doc, "time", 1) = {} THEN "zero" ELSE "datetime"

\* extractQuotedTweet (the pointer is a sequence, empty for nil): after the
\* first quote marker, the first text container whose content starts with
\* text ([^<]+), up to its first tag.
extractQuotedTweet(doc) ==
    LET marks == Places(doc, "quoteTweet", 1)
    IN  IF marks = {} THEN <<>>
        ELSE LET hits == {i \in Places(doc, "tweetText", Min(marks) + 1) :
                             IsText(doc[i].body[1])}
             IN  IF hits = {} THEN <<>>
                 ELSE LET body == doc[Min(hits)].body
                      IN  <<[Text |-> cleanText(
                                SubSeq(body, 1, RunLen(body, Chars)))]>>

\* parseContent
parseContent(doc) ==
    [Text |-> extractTweetText(doc),
     Direction |-> extractTextDirection(doc),
     CreatedAt |-> extractTimestamp(doc),
     QuotedTweet |-> extractQuotedTweet(doc)]

\* parseHTML: the record and the partial flag.
parseHTML(doc) ==
    LET a == parseAuthor(doc)
    IN  [tweet |-> [Author |-> a.author, Content |-> parseContent(doc),
                    Partial |-> FALSE],
         partial |-> a.partial]

ParseInit ==
    /\ html \in Docs
    /\ parsed = <<>>
    /\ PoolInit /\ TextIdle /\ ScrapeIdle /\ NewMemoryCache /\ AppIdle

Parse ==
    /\ parsed = <<>>
    /\ parsed' = <<parseHTML(html)>>
    /\ UNCHANGED <<html, poolVars, appVars, textVars, scrapeVars, cacheVars>>

ParseNext == Parse

ParseSpec == ParseInit /\ [][ParseNext]_vars

\* The document without its optional parts: timestamp, quote marker,
\* verification marker, direction attributes.
IsRequiredPart(e) == e.el \notin {"time", "quoteTweet", "icon-verified"}
WithoutOptional(doc) ==
    LET kept == SelectSeq(doc, IsRequiredPart)
    IN  [i \in 1..Len(kept) |-> [kept[i] EXCEPT !.attr = IF @ = "dir=rtl" THEN "" ELSE @]]

(***************************************************************************)
(* TwitterScraper.Scrape: one call of WithTabCtx with the four-step        *)
(* closure (the pool actions above, for the goroutine that calls Scrape),  *)
(* then the mapping of its error and the parsing of the captured document. *)
(***************************************************************************)
ScrapeInit == PoolInit /\ AuxIdle

\* Scrape is called once, by any goroutine, and calls WithTabCtx.
ScrapeCall(t) ==
    /\ last = "none" /\ scraped = <<>>
    /\ \A u \in Threads : pc[u] = "idle"
    /\ Call(t)

\* WithTabCtx hands the lock-protected tab to Scrape's closure.
ScrapeEnsure(t) ==
    /\ Ensure(t)
    /\ pc'[t] = "fn" => call'[t].kind = "Scrape"

\* Mutant of ScrapeReturn: the document is parsed whatever WithTabCtx
\* returned.
ScrapeReturn_ParseAnyway(err, doc) ==
    LET p == parseHTML(doc)
    IN  [parsed |-> <<p>>,
         tweet |-> <<[p.tweet EXCEPT !.Partial = p.partial]>>,
         err |-> IF err # "nil" THEN "ErrScrapingFailed" ELSE "nil"]

\* Mutant of ScrapeReturn: a record without text is returned.
ScrapeReturn_NoTextCheck(err, doc) ==
    IF err # "nil"
    THEN [parsed |-> <<>>, tweet |-> <<>>, err |-> "ErrScrapingFailed"]
    ELSE LET p == parseHTML(doc)
         IN  [parsed |-> <<p>>,
              tweet |-> <<[p.tweet EXCEPT !.Partial = p.partial]>>,
              err |-> "nil"]

\* What Scrape does with the error of WithTabCtx and the captured document:
\* any error becomes ErrScrapingFailed, else the document is parsed and a
\* record without text becomes ErrTextNotFound.
ScrapeReturn(err, doc) ==
    IF err # "nil"
    THEN [parsed |-> <<>>, tweet |-> <<>>, err |-> "ErrScrapingFailed"]
    ELSE LET p == parseHTML(doc)
         IN  IF p.tweet.Content.Text = <<>>
             THEN [parsed |-> <<p>>, tweet |-> <<>>, err |-> "ErrTextNotFound"]
             ELSE [parsed |-> <<p>>,
                   tweet |-> <<[p.tweet EXCEPT !.Partial = p.partial]>>,
                   err |-> "nil"]

\* WithTabCtx has returned: Scrape returns.  The captured document is
\* whatever the page held when step four ran.
ScrapeFinish ==
    /\ scraped = <<>>
    /\ last # "none"
    /\ \A u \in Threads : pc[u] = "idle"
    /\ \E doc \in IF last = "nil" THEN Docs ELSE {<<>>} :
          LET r == ScrapeReturn(last, doc)
          IN  /\ html' = doc
              /\ parsed' = r.parsed
              /\ scraped' = <<[tweet |-> r.tweet, err |-> r.err]>>
    /\ UNCHANGED <<poolVars, appVars, textVars, cacheVars>>

ScrapeNext ==
    \/ \E t \in Threads : ScrapeCall(t)
    \/ \E t \in Threads : CtxFire(t)
    \/ \E t \in Threads : Acquire(t)
    \/ \E t \in Threads : ScrapeEnsure(t)
    \/ \E t \in Threads : ScrapeStep(t)
    \/ \E t \in Threads : ScrapeFail(t)
    \/ \E t \in Threads : Post(t)
    \/ Crash
    \/ ScrapeFinish

ScrapeSpec == ScrapeInit /\ [][ScrapeNext]_vars

(***************************************************************************)
(* MemoryCache: a sync.Map of entries with an expiry time, read by Get,    *)
(* written by Set, swept by the cleanup goroutine.  Load, Store and Delete *)
(* of the sync.Map are atomic one by one; Get and cleanup each do a Load   *)
(* (or Range) and a Delete.                                                *)
(***************************************************************************)
\* The configured time to live, in clock ticks.
TTL == 2
\* The clock stops here.
MaxNow == 4

CachedTweets == {"t1", "t2"}

Miss == [tweet |-> "nil", ok |-> FALSE]

\* time.Now().After(entry.expiresAt)
Expired(entry, t) == t > entry.expiresAt

\* What Get returns for what Load gave it at time t.
GetResult(loaded, t) ==
    IF loaded = <<>> \/ Expired(loaded[1], t) THEN Miss
    ELSE [tweet |-> loaded[1].tweet, ok |-> TRUE]

Tick ==
    /\ now < MaxNow
    /\ now' = now + 1
    /\ UNCHANGED <<tweets, lastSet, reader, sweeper, got, poolVars, appVars,
                   parseVars, textVars, scrapeVars>>

\* Set: Store a new entry that expires TTL from now.
Set(username, tweetID, tweet) ==
    LET key == NormalizedKey(username, tweetID)
    IN  /\ tweets' = [tweets EXCEPT
                        ![key] = <<[tweet |-> tweet, expiresAt |-> now + TTL]>>]
        /\ lastSet' = [lastSet EXCEPT ![key] = <<[tweet |-> tweet, at |-> now]>>]
        /\ UNCHANGED <<now, reader, sweeper, got, poolVars, appVars,
                       parseVars, textVars, scrapeVars>>

\* Get up to its return or, for an expired entry, up to its Delete.
GetLoad(username, tweetID) ==
    LET key == NormalizedKey(username, tweetID)
        loaded == tweets[key]
    IN  /\ reader = <<>>
        /\ IF loaded # <<>> /\ Expired(loaded[1], now)
           THEN reader' = <<key>> /\ UNCHANGED got
           ELSE got' = <<[key |-> key] @@ GetResult(loaded, now)>>
                  /\ UNCHANGED reader
        /\ UNCHANGED <<now, tweets, lastSet, sweeper, poolVars, appVars,
                       parseVars, textVars, scrapeVars>>

\* Get deletes the key whose entry it found expired, and returns.
GetDelete ==
    /\ reader # <<>>
    /\ tweets' = [tweets EXCEPT ![reader[1]] = <<>>]
    /\ got' = <<[key |-> reader[1]] @@ Miss>>
    /\ reader' = <<>>
    /\ UNCHANGED <<now, lastSet, sweeper, poolVars, appVars, parseVars,
                   textVars, scrapeVars>>

\* cleanup: the Range callback sees an expired entry.
CleanupSee(key) ==
    /\ sweeper = <<>>
    /\ tweets[key] # <<>> /\ Expired(tweets[key][1], now)
    /\ sweeper' = <<key>>
    /\ UNCHANGED <<now, tweets, lastSet, reader, got, poolVars, appVars,
                   parseVars, textVars, scrapeVars>>

\* cleanup: the callback deletes the key.
CleanupDelete ==
    /\ sweeper # <<>>
    /\ tweets' = [tweets EXCEPT ![sweeper[1]] = <<>>]
    /\ sweeper' = <<>>
    /\ UNCHANGED <<now, lastSet, reader, got, poolVars, appVars, parseVars,
                   textVars, scrapeVars>>

CacheInit ==
    NewMemoryCache /\ PoolInit /\ ParseIdle /\ TextIdle /\ ScrapeIdle /\ AppIdle

CacheNext ==
    \/ Tick
    \/ \E u \in Usernames, id \in TweetIDs, t \in CachedTweets : Set(u, id, t)
    \/ \E u \in Usernames, id \in TweetIDs : GetLoad(u, id)
    \/ GetDelete
    \/ \E key \in Keys : CleanupSee(key)
    \/ CleanupDelete

CacheSpec == CacheInit /\ [][CacheNext]_vars

\* What the most recent Set of a key entitles a Get at time t to.
Entitled(key, t) ==
    IF lastSet[key] = <<>> \/ t > lastSet[key][1].at + TTL THEN Miss
    ELSE [tweet |-> lastSet[key][1].tweet, ok |-> TRUE]

----------------------------------------------------------------------------
\* The use cases: GetTweetUseCase.Execute in front of the cache and of
\* ScrapeTweetUseCase.Execute.  One Execute call at a time; the clock and
\* the cache's sweep run beside it.

\* What the TweetScraper returns: an error and no record, or a record whose
\* Username and URL are still empty.
ScrapeErrs == {"ErrScrapingFailed", "ErrTextNotFound", "DeadlineExceeded"}
RawTweets == {[Username |-> <<>>, URL |-> <<>>, Partial |-> p] : p \in BOOLEAN}
ScrapeOutcomes ==
    {[tweet |-> <<>>, err |-> e] : e \in ScrapeErrs}
      \cup {[tweet |-> <<t>>, err |-> "nil"] : t \in RawTweets}

\* "https://x.com/" + username + "/status/" + tweetID
TweetURL(username, tweetID) ==
    <<"https://x.com/">> \o username \o <<"/status/">> \o tweetID

\* Mutant of ScrapeTweetExecute: the URL is built without the username.
ScrapeTweetExecute_NoUsername(outcome, tweetID, username) ==
    IF outcome.err # "nil" THEN [tweet |-> <<>>, err |-> outcome.err]
    ELSE [tweet |-> <<[outcome.tweet[1] EXCEPT
                         !.Username = username,
                         !.URL = TweetURL(<<>>, tweetID)]>>,
          err |-> "nil"]

\* ScrapeTweetUseCase.Execute, given what the scraper returned.
ScrapeTweetExecute(outcome, tweetID, username) ==
    IF outcome.err # "nil" THEN [tweet |-> <<>>, err |-> outcome.err]
    ELSE [tweet |-> <<[outcome.tweet[1] EXCEPT
                         !.Username = username,
                         !.URL = TweetURL(username, tweetID)]>>,
          err |-> "nil"]

UcKey == NormalizedKey(uc.username, uc.tweetID)

\* Execute is called.
UcCall(username, tweetID) ==
    /\ uc.pc = "idle"
    /\ uc' = [NoExecute EXCEPT !.pc = "get", !.username = username,
                               !.tweetID = tweetID]
    /\ ret' = <<>>
    /\ UNCHANGED <<scrapeOut, limiterVars, bufferVars, poolVars, parseVars,
                   textVars, scrapeVars, cacheVars>>

\* Mutant of UcGet: the cache is not looked at.
UcGet_NoCache ==
    /\ uc.pc = "get"
    /\ uc' = [uc EXCEPT !.pc = "scrape"]
    /\ UNCHANGED <<ret, scrapeOut, limiterVars, bufferVars, poolVars,
                   parseVars, textVars, scrapeVars, cacheVars>>

\* uc.cache.Get up to its return or, for an expired entry, up to its
\* Delete; a hit returns the cached record.
UcGet ==
    /\ uc.pc = "get"
    /\ LET loaded == tweets[UcKey]
       IN  IF GetResult(loaded, now).ok
           THEN /\ ret' = <<[tweet |-> <<loaded[1].tweet>>, err |-> "nil"]>>
                /\ uc' = [uc EXCEPT !.pc = "idle"]
           ELSE /\ uc' = [uc EXCEPT !.pc = IF loaded = <<>> THEN "scrape"
                                           ELSE "delete"]
                /\ UNCHANGED ret
    /\ UNCHANGED <<scrapeOut, limiterVars, bufferVars, poolVars, parseVars,
                   textVars, scrapeVars, cacheVars>>

\* uc.cache.Get deletes the key whose entry it found expired: a miss.
UcGetDelete ==
    /\ uc.pc = "delete"
    /\ tweets' = [tweets EXCEPT ![UcKey] = <<>>]
    /\ uc' = [uc EXCEPT !.pc = "scrape"]
    /\ UNCHANGED <<ret, scrapeOut, now, lastSet, reader, sweeper, got,
                   limiterVars, bufferVars, poolVars, parseVars, textVars,
                   scrapeVars>>

\* Mutant of UcScrape: a failed scrape is stored too.
UcScrape_StoreFailure ==
    /\ uc.pc = "scrape"
    /\ \E outcome \in ScrapeOutcomes :
          LET r == ScrapeTweetExecute(outcome, uc.tweetID, uc.username)
          IN  /\ scrapeOut' = <<[in |-> outcome, tweetID |-> uc.tweetID,
                                username |-> uc.username, out |-> r]>>
              /\ uc' = [uc EXCEPT !.pc = "set", !.tweet = r.tweet,
                                  !.scraped = TRUE]
              /\ UNCHANGED ret
    /\ UNCHANGED <<limiterVars, bufferVars, poolVars, parseVars, textVars,
                   scrapeVars, cacheVars>>

\* uc.scraper.Execute; its error is returned as it is.
UcScrape ==
    /\ uc.pc = "scrape"
    /\ \E outcome \in ScrapeOutcomes :
          LET r == ScrapeTweetExecute(outcome, uc.tweetID, uc.username)
          IN  /\ scrapeOut' = <<[in |-> outcome, tweetID |-> uc.tweetID,
                                username |-> uc.username, out |-> r]>>
              /\ IF r.err # "nil"
                 THEN /\ ret' = <<[tweet |-> <<>>, err |-> r.err]>>
                      /\ uc' = [uc EXCEPT !.pc = "idle", !.scraped = TRUE]
                 ELSE /\ uc' = [uc EXCEPT !.pc = "set", !.tweet = r.tweet,
                                          !.scraped = TRUE]
                      /\ UNCHANGED ret
    /\ UNCHANGED <<limiterVars, bufferVars, poolVars, parseVars, textVars,
                   scrapeVars, cacheVars>>

\* uc.cache.Set of the scraped record, and the return.
UcSet ==
    /\ uc.pc = "set"
    /\ tweets' = [tweets EXCEPT
                    ![UcKey] = <<[tweet |-> uc.tweet[1],
                                  expiresAt |-> now + TTL]>>]
    /\ lastSet' = [lastSet EXCEPT
                     ![UcKey] = <<[tweet |-> uc.tweet[1], at |-> now]>>]
    /\ ret' = <<[tweet |-> uc.tweet, err |-> "nil"]>>
    /\ uc' = [uc EXCEPT !.pc = "idle"]
    /\ UNCHANGED <<scrapeOut, now, reader, sweeper, got, limiterVars,
                   bufferVars, poolVars, parseVars, textVars, scrapeVars>>

UseCaseInit == PoolInit /\ AuxIdle

UseCaseNext ==
    \/ \E u \in Usernames, id \in TweetIDs : UcCall(u, id)
    \/ UcGet
    \/ UcGetDelete
    \/ UcScrape
    \/ UcSet
    \/ Tick
    \/ \E key \in Keys : CleanupSee(key)
    \/ CleanupDelete

UseCaseSpec == UseCaseInit /\ [][UseCaseNext]_vars

----------------------------------------------------------------------------
\* The rate limiter and the handlers that start the pipeline.  The clock
\* is the cache's.

\* rl.limit and rl.window, scaled down.
Limit == 2
Window == 2

\* The recorded times of a client that are after now - window.
Recent(timestamps, t) ==
    {i \in 1..Len(timestamps) : timestamps[i] + Window > t}

\* CanScrape(ip) at time t, for the map m.
CanScrape(m, ip, t) == Cardinality(Recent(m[ip], t)) < Limit

\* RecordScrape(ip): the time is appended to the client's list.
RecordScrape(ip) ==
    /\ Len(scrapes[ip]) <= Limit
    /\ scrapes' = [scrapes EXCEPT ![ip] = Append(@, now)]
    /\ UNCHANGED <<served, usecaseVars, bufferVars, poolVars, parseVars,
                   textVars, scrapeVars, cacheVars>>

\* One round of cleanup: every client keeps its recent times, a client
\* with none is deleted from the map.
RlCleanup ==
    /\ scrapes' = [ip \in Clients |->
                     SelectSeq(scrapes[ip], LAMBDA ts : ts + Window > now)]
    /\ scrapes' # scrapes
    /\ UNCHANGED <<served, usecaseVars, bufferVars, poolVars, parseVars,
                   textVars, scrapeVars, cacheVars>>

\* FetchTweet and APIGetTweet, for a request of client ip: the handler
\* calls h.getTweet.Execute; neither it nor the routes call the limiter.
HandleTweet(ip) ==
    /\ served[ip] <= Limit
    /\ served' = [served EXCEPT ![ip] = @ + 1]
    /\ UNCHANGED <<scrapes, usecaseVars, bufferVars, poolVars, parseVars,
                   textVars, scrapeVars, cacheVars>>

LimiterInit == PoolInit /\ AuxIdle

LimiterNext ==
    \/ \E ip \in Clients : RecordScrape(ip)
    \/ RlCleanup
    \/ \E ip \in Clients : HandleTweet(ip)
    \/ Tick

LimiterSpec == LimiterInit /\ [][LimiterNext]_vars

----------------------------------------------------------------------------
\* The log buffer: Send calls, the worker and one Close call on a channel
\* of Capacity entries.  Every select, atomic load, add and compare-and-
\* swap is a step of its own; entries are numbered in the order of their
\* Send calls.  fate follows each entry: "sending" (its Send is running),
\* "queued", "held" (received by the worker or by Close, being delivered),
\* "delivered", "discarded" (received by an overflowing Send), "dropped"
\* (discarded and counted), "rejected" (never queued, counted as dropped),
\* "refused" (its Send saw the closed flag).

bufferOther == <<usecaseVars, limiterVars, poolVars, parseVars, textVars,
                 scrapeVars, cacheVars>>

Full == Len(entries) >= Capacity

\* Send is called with a new entry.
SendCall(s) ==
    /\ sender[s].pc = "idle"
    /\ sent < MaxSends
    /\ sent' = sent + 1
    /\ sender' = [sender EXCEPT ![s] = [pc |-> "check", entry |-> sent + 1,
                                        old |-> 0]]
    /\ fate' = [fate EXCEPT ![sent + 1] = "sending"]
    /\ UNCHANGED <<entries, closed, done, worker, closer, dropped, delivered,
                   bufferOther>>

\* if atomic.LoadInt32(&b.closed) == 1 { return }
SendCheck(s) ==
    /\ sender[s].pc = "check"
    /\ IF closed = 1
       THEN /\ sender' = [sender EXCEPT ![s] = NoSend]
            /\ fate' = [fate EXCEPT ![sender[s].entry] = "refused"]
       ELSE /\ sender' = [sender EXCEPT ![s].pc = "send"]
            /\ UNCHANGED fate
    /\ UNCHANGED <<entries, closed, done, worker, closer, dropped, delivered,
                   sent, bufferOther>>

\* The outer select: the entry is queued and Send returns, or the channel
\* is full.
SendEnqueue(s) ==
    /\ sender[s].pc = "send"
    /\ IF ~Full
       THEN /\ entries' = Append(entries, sender[s].entry)
            /\ fate' = [fate EXCEPT ![sender[s].entry] = "queued"]
            /\ sender' = [sender EXCEPT ![s] = NoSend]
       ELSE /\ sender' = [sender EXCEPT ![s].pc = "drain"]
            /\ UNCHANGED <<entries, fate>>
    /\ UNCHANGED <<closed, done, worker, closer, dropped, delivered, sent,
                   bufferOther>>

\* The first inner select: the oldest entry is received and discarded, or
\* the channel is already empty.
SendDrain(s) ==
    /\ sender[s].pc = "drain"
    /\ IF entries # <<>>
       THEN /\ entries' = Tail(entries)
            /\ fate' = [fate EXCEPT ![Head(entries)] = "discarded"]
            /\ sender' = [sender EXCEPT ![s].pc = "count",
                                        ![s].old = Head(entries)]
       ELSE /\ sender' = [sender EXCEPT ![s].pc = "retry"]
            /\ UNCHANGED <<entries, fate>>
    /\ UNCHANGED <<closed, done, worker, closer, dropped, delivered, sent,
                   bufferOther>>

\* atomic.AddInt64(&b.dropped, 1) for the discarded entry.
SendCountOld(s) ==
    /\ sender[s].pc = "count"
    /\ dropped' = dropped + 1
    /\ fate' = [fate EXCEPT ![sender[s].old] = "dropped"]
    /\ sender' = [sender EXCEPT ![s].pc = "retry", ![s].old = 0]
    /\ UNCHANGED <<entries, closed, done, worker, closer, delivered, sent,
                   bufferOther>>

\* The second inner select: the entry is queued and Send returns, or the
\* channel is full again.
SendRetry(s) ==
    /\ sender[s].pc = "retry"
    /\ IF ~Full
       THEN /\ entries' = Append(entries, sender[s].entry)
            /\ fate' = [fate EXCEPT ![sender[s].entry] = "queued"]
            /\ sender' = [sender EXCEPT ![s] = NoSend]
       ELSE /\ sender' = [sender EXCEPT ![s].pc = "countNew"]
            /\ UNCHANGED <<entries, fate>>
    /\ UNCHANGED <<closed, done, worker, closer, dropped, delivered, sent,
                   bufferOther>>

\* atomic.AddInt64(&b.dropped, 1) for the new entry, and the return.
SendCountNew(s) ==
    /\ sender[s].pc = "countNew"
    /\ dropped' = dropped + 1
    /\ fate' = [fate EXCEPT ![sender[s].entry] = "rejected"]
    /\ sender' = [sender EXCEPT ![s] = NoSend]
    /\ UNCHANGED <<entries, closed, done, worker, closer, delivered, sent,
                   bufferOther>>

\* The worker's select: with an entry queued it may receive it, with done
\* closed it may return; with both ready either happens.
WorkerReceive ==
    /\ worker.pc = "select"
    /\ entries # <<>>
    /\ entries' = Tail(entries)
    /\ worker' = [pc |-> "deliver", entry |-> Head(entries)]
    /\ fate' = [fate EXCEPT ![Head(entries)] = "held"]
    /\ UNCHANGED <<closed, done, sender, closer, dropped, delivered, sent,
                   bufferOther>>

WorkerDone ==
    /\ worker.pc = "select"
    /\ done
    /\ worker' = [pc |-> "exited", entry |-> 0]
    /\ UNCHANGED <<entries, closed, done, sender, closer, dropped, delivered,
                   sent, fate, bufferOther>>

\* b.deliver(entry) by the worker: a Write to every transporter.
WorkerDeliver ==
    /\ worker.pc = "deliver"
    /\ delivered' = [delivered EXCEPT ![worker.entry] = @ + 1]
    /\ fate' = [fate EXCEPT ![worker.entry] = "delivered"]
    /\ worker' = [pc |-> "select", entry |-> 0]
    /\ UNCHANGED <<entries, closed, done, sender, closer, dropped, sent,
                   bufferOther>>

\* The entries that a completed Send has put into the queue.
Accepted ==
    {e \in EntryIDs :
        fate[e] \in {"queued", "held", "delivered", "discarded", "dropped"}}

\* Close is called, for the first time or again after it returned.
CloseCall ==
    /\ closer.pc \in {"idle", "returned"}
    /\ closer' = [closer EXCEPT !.pc = "cas", !.before = Accepted]
    /\ UNCHANGED <<entries, closed, done, worker, sender, dropped, delivered,
                   sent, fate, bufferOther>>

\* atomic.CompareAndSwapInt32(&b.closed, 0, 1)
CloseCAS ==
    /\ closer.pc = "cas"
    /\ IF closed = 0
       THEN closed' = 1 /\ closer' = [closer EXCEPT !.pc = "closeDone"]
       ELSE closer' = [closer EXCEPT !.pc = "returned"] /\ UNCHANGED closed
    /\ UNCHANGED <<entries, done, worker, sender, dropped, delivered, sent,
                   fate, bufferOther>>

\* close(b.done)
CloseDone ==
    /\ closer.pc = "closeDone"
    /\ done' = TRUE
    /\ closer' = [closer EXCEPT !.pc = "wait"]
    /\ UNCHANGED <<entries, closed, worker, sender, dropped, delivered, sent,
                   fate, bufferOther>>

\* b.wg.Wait() returns once the worker has returned.
CloseWait ==
    /\ closer.pc = "wait"
    /\ worker.pc = "exited"
    /\ closer' = [closer EXCEPT !.pc = "flush"]
    /\ UNCHANGED <<entries, closed, done, worker, sender, dropped, delivered,
                   sent, fate, bufferOther>>

\* The select of the flush loop: an entry is received, or the queue is
\* empty and Close returns.
CloseFlush ==
    /\ closer.pc = "flush"
    /\ IF entries # <<>>
       THEN /\ entries' = Tail(entries)
            /\ closer' = [closer EXCEPT !.pc = "deliver",
                                        !.entry = Head(entries)]
            /\ fate' = [fate EXCEPT ![Head(entries)] = "held"]
       ELSE /\ closer' = [closer EXCEPT !.pc = "returned"]
            /\ UNCHANGED <<entries, fate>>
    /\ UNCHANGED <<closed, done, worker, sender, dropped, delivered, sent,
                   bufferOther>>

\* b.deliver(entry) by Close.
CloseDeliver ==
    /\ closer.pc = "deliver"
    /\ delivered' = [delivered EXCEPT ![closer.entry] = @ + 1]
    /\ fate' = [fate EXCEPT ![closer.entry] = "delivered"]
    /\ closer' = [closer EXCEPT !.pc = "flush", !.entry = 0]
    /\ UNCHANGED <<entries, closed, done, worker, sender, dropped, sent,
                   bufferOther>>

BufferInit == PoolInit /\ AuxIdle

BufferNext ==
    \/ \E s \in Senders : SendCall(s)
    \/ \E s \in Senders : SendCheck(s)
    \/ \E s \in Senders : SendEnqueue(s)
    \/ \E s \in Senders : SendDrain(s)
    \/ \E s \in Senders : SendCountOld(s)
    \/ \E s \in Senders : SendRetry(s)
    \/ \E s \in Senders : SendCountNew(s)
    \/ WorkerReceive
    \/ WorkerDone
    \/ WorkerDeliver
    \/ CloseCall
    \/ CloseCAS
    \/ CloseDone
    \/ CloseWait
    \/ CloseFlush
    \/ CloseDeliver

BufferSpec == BufferInit /\ [][BufferNext]_vars

RECURSIVE DeliveredUpTo(_)
\* How many deliveries the entries 1..n have had.
DeliveredUpTo(n) == IF n = 0 THEN 0 ELSE delivered[n] + DeliveredUpTo(n - 1)

----------------------------------------------------------------------------
\* C1: at every instant at most one caller is inside its step function.
C1_OneInStep == Cardinality({t \in Threads : InFn(t)}) <= 1

\* A caller is inside its step while another one waits for the slot.
C1_Witness == \E t, u \in Threads : InFn(t) /\ pc[u] = "lock"

\* C2: the slot is held only by a caller between its Lock and its return;
\* a call that has returned (nil, error, panic, startup error) left it free.
C2_SlotReleased ==
    \A t \in Threads : mu = t => pc[t] \in {"ensure", "fn", "post"}

\* The step function just panicked, the slot is free and a waiter can take it.
C2_Witness ==
    last = "panic" /\ mu = 0 /\ \E t \in Threads : pc[t] = "lock" /\ ENABLED Acquire(t)

\* C3 (as claimed): a waiter whose context is done returns the context's
\* error without waiting for the holder: its return is never blocked.
C3_WaiterCanReturn ==
    \A t \in Threads : (pc[t] = "lock" /\ ctx[t].done) => ENABLED Acquire(t)

\* C4: a call whose context fired before the slot is granted returns the
\* context's error in that step and changes nothing: no probe, no start, no
\* step function, the lock and the session as they were.
C4_NoSideEffects ==
    [][\A t \in Threads :
         (pc[t] = "lock" /\ ctx[t].done /\ pc'[t] # "lock")
           => /\ pc'[t] = "idle"
              /\ last' = CtxErr(ctx[t])
              /\ UNCHANGED <<mu, bp, proc, orphans, idleTimer, pendingCb,
                             call, lastDown>>]_vars

\* A call returned its deadline error and left a running session untouched.
C4_Witness ==
    /\ last = "DeadlineExceeded"
    /\ bp.running /\ proc = "alive" /\ idleTimer = "armed"
    /\ mu = 0

\* C5 (as claimed): once the caller's signal has fired, Scrape starts no
\* later step: it stops at the checkpoint that follows the current step.
C5_AbortAtCheckpoint ==
    [][\A t \in Threads :
         (pc[t] = "fn" /\ call[t].kind = "Scrape" /\ ctx[t].done /\ pc'[t] = "fn")
           => call'[t].step = call[t].step]_vars

\* C6 (as claimed): the context handed to the step function has a deadline
\* exactly when the caller's has, and is done whenever the caller's is.
C6_ContextPropagated ==
    \A t \in Threads :
        InFn(t) => /\ FnCtxHasDeadline(ctx[t]) <=> (ctx[t].kind = "deadline")
                   /\ ctx[t].done => FnCtxDone(ctx[t], proc)

\* C7 (as claimed): a Scrape call made with a deadline eventually returns.
C7_ScrapeReturns ==
    \A t \in Threads :
        (InFn(t) /\ call[t].kind = "Scrape" /\ ctx[t].kind = "deadline")
          ~> (pc[t] = "idle")

\* C8: a new pool is stopped, with no process, tab or timer, and the session
\* goes from stopped to running only in the ensure step of an acquisition.
C8_LazyStart ==
    /\ bp = NoHandles /\ proc = "none" /\ idleTimer = "nil"
    /\ [][(~bp.running /\ bp'.running)
            => \E t \in Threads : pc[t] = "ensure" /\ pc'[t] = "fn"]_vars

\* The first call after an idle shutdown has started the browser again.
C8_Witness ==
    /\ bp.running /\ proc = "alive"
    /\ idleTimer = "fired" /\ pendingCb = 0
    /\ \E t \in Threads : InFn(t)

\* C9 (as claimed): a call that returns a startup error leaves the session
\* stopped, with no process, tab or cancel handle retained.
C9_FailedStartStops ==
    [][\A t \in Threads :
         (pc[t] = "ensure" /\ pc'[t] = "idle")
           => /\ last' = "StartupError"
              /\ bp' = NoHandles
              /\ ~Live(proc')]_vars

\* C10: after a failed start, an idle shutdown or Close, the next call whose
\* start does not fail runs its step on a fresh process and surface, and a
\* call returns what its step returned.
C10_UsableAfterTeardown ==
    [][\A t \in Threads :
         /\ (pc[t] = "ensure" /\ lastDown # "none" /\ pc'[t] # "ensure")
              => \/ pc'[t] = "idle" /\ last' = "StartupError"
                 \/ /\ pc'[t] = "fn"
                    /\ bp' = AllHandles
                    /\ proc' = "alive"
                    /\ ~Live(proc)
                    /\ lastDown' = "none"
         /\ (pc[t] = "post" /\ pc'[t] = "idle") => last' = fnErr[t]]_vars

\* The call before returned a startup error; this one runs on a fresh session.
C10_Witness ==
    /\ last = "StartupError"
    /\ lastDown = "none"
    /\ bp = AllHandles /\ proc = "alive"
    /\ \E t \in Threads : InFn(t)

Critical(t) == pc[t] \in {"ensure", "fn", "post"}

\* C11: a call whose probe fails and whose restart fails too does not run
\* its step and returns the startup error: a step function is only ever
\* entered on a live browser.
C11_DeadNeverMasked ==
    [][\A t \in Threads :
         (pc[t] = "ensure" /\ pc'[t] # "ensure")
           => \/ pc'[t] = "fn" /\ proc' = "alive" /\ bp'.running
              \/ /\ pc'[t] = "idle"
                 /\ last' = "StartupError"
                 /\ call'[t] = NoCall
                 /\ proc' # "alive"]_vars

\* The restart of a session whose probe failed has failed as well.
C11_Witness ==
    /\ last = "StartupError"
    /\ lastDown = "startFail"
    /\ bp.running /\ proc = "dead"

\* C12: when the probe fails on a running session the old process is torn
\* down; if the restart succeeds the step runs on the fresh surface, and the
\* call returns what the step returned, never the probe failure.
C12_ProbeRecovers ==
    [][\A t \in Threads :
         /\ (pc[t] = "ensure" /\ bp.running /\ proc # "alive" /\ pc'[t] # "ensure")
              => /\ orphans' = orphans
                 /\ \/ /\ pc'[t] = "fn"
                       /\ call'[t].recovered
                       /\ bp' = AllHandles /\ proc' = "alive"
                       /\ last' = last
                    \/ /\ pc'[t] = "idle"
                       /\ last' = "StartupError"
                       /\ proc' = "dead"
         /\ (call[t].recovered /\ pc'[t] = "idle")
              => \/ pc[t] = "post" /\ last' = fnErr[t]
                 \/ pc[t] = "fn" /\ last' = "panic"]_vars

\* A step function runs on the surface created after a failed probe.
C12_Witness ==
    \E t \in Threads :
        InFn(t) /\ call[t].recovered /\ proc = "alive" /\ bp = AllHandles

\* C13 (as claimed): the idle callback stops the browser only when the timer
\* that expired is the current one, not one a later use has replaced.
C13_OnlyCurrentTimerStops ==
    [][(pendingCb' < pendingCb /\ bp.running /\ ~bp'.running)
         => idleTimer = "fired"]_vars

\* C14 (as claimed): whenever the browser is running and no caller is inside
\* a call, an idle timer is armed or its callback is on its way.
C14_IdleTimerArmed ==
    (bp.running /\ \A t \in Threads : pc[t] = "idle")
      => (idleTimer = "armed" \/ pendingCb > 0)

\* C15 (as claimed): every exit of a call that reached its step function
\* leaves the idle timer reset.
C15_TimerResetOnEveryExit ==
    [][\A t \in Threads :
         (pc[t] \in {"fn", "post"} /\ pc'[t] = "idle") => idleTimer' = "armed"]_vars

\* C16: from every reachable state Close leaves the session stopped, every
\* handle cleared, no process and no timer, and a second Close changes
\* nothing.
C16_CloseIdempotent ==
    LET r == CloseEffect(bp, proc, orphans, idleTimer)
    IN  /\ r.bp = NoHandles
        /\ r.proc = "none"
        /\ r.orphans = orphans
        /\ r.idleTimer = "nil"
        /\ CloseEffect(r.bp, r.proc, r.orphans, r.idleTimer) = r

\* Close has just stopped a session that had been used.
C16_Witness ==
    /\ lastDown = "close"
    /\ last = "nil"
    /\ bp = NoHandles /\ proc = "none" /\ idleTimer = "nil"

\* C17: Close tears a running session down only while no caller is in its
\* critical section, and leaves the lock free for the callers that wait.
C17_CloseOutsideStep ==
    [][(bp.running /\ ~bp'.running /\ lastDown' = "close")
         => /\ \A t \in Threads : ~Critical(t)
            /\ mu = 0 /\ mu' = 0
            /\ pc' = pc]_vars

\* Close ran while a caller was waiting, and that caller can take the slot.
C17_Witness ==
    /\ lastDown = "close" /\ ~bp.running
    /\ last = "nil"
    /\ \E t \in Threads : pc[t] = "lock" /\ ENABLED Acquire(t)

\* C18: no process is alive besides the one the handles refer to, that one
\* can be cancelled through them, and a stopped session has none.
C18_OneProcess ==
    /\ orphans = 0
    /\ Live(proc) => bp.cancel /\ bp.tabCancel /\ bp.tabCtx
    /\ ~bp.running => proc = "none" /\ bp = NoHandles

\* A restart replaced a process that had failed its probe.
C18_Witness ==
    /\ \E t \in Threads : pc[t] = "post" /\ call[t].recovered
    /\ proc = "alive" /\ orphans = 0

\* C19: the handles, the running flag and the timer field change only in a
\* step of the caller that holds bp.mu, or in a Close or idle callback that
\* runs while no caller holds it.
C19_MutatedUnderLock ==
    [][(bp' # bp \/ (idleTimer' # idleTimer /\ idleTimer' # "fired"))
         => \/ \E t \in Threads : mu = t /\ Critical(t) /\ pc'[t] # pc[t]
            \/ mu = 0 /\ mu' = 0 /\ pc' = pc]_vars

\* An idle callback waits while a caller holds the lock on a running session.
C19_Witness ==
    /\ pendingCb > 0
    /\ bp.running
    /\ \E t \in Threads : mu = t /\ InFn(t)

\* C20: unless a step function never returns, the lock is free, or its
\* holder can take its next step: waiters, callback and Close are not stuck.
C20_NoDeadlock ==
    (\A t \in Threads : InFn(t) => ~(call[t].blocked /\ proc = "alive"))
      => \/ mu = 0
         \/ \E t \in Threads : mu = t /\ ENABLED ThreadStep(t)

\* A caller and an idle callback wait for the lock while a step runs.
C20_Witness ==
    /\ pendingCb > 0
    /\ \E t, u \in Threads : pc[u] = "lock" /\ mu = t /\ pc[t] = "post"

\* C28 (as claimed): cleaning is idempotent, cleaning a cleaned string
\* returns it unchanged.
C28_CleanIdempotent == Len(cleaned) = 2 => cleaned[2] = cleaned[1]

\* C29 (as claimed): a cleaned string has no three newlines in a row and no
\* line that starts or ends with a space or a tab.
C29_AtMostOneBlankLine ==
    Len(cleaned) >= 1 => /\ ~HasTripleNewline(cleaned[1])
                         /\ ~HasUntrimmedLine(cleaned[1])

\* C24: a document with non-empty main text is parsed with partial false
\* exactly when name, handle and avatar were all found; a document without
\* name block is partial; taking the timestamp, the quote marker, the
\* verification marker or the direction attributes away never changes it.
C24_PartialIffAuthorIncomplete ==
    (parsed # <<>> /\ parsed[1].tweet.Content.Text # <<>>)
      => /\ parsed[1].partial = ~(/\ parsed[1].tweet.Author.Name # <<>>
                               /\ parsed[1].tweet.Author.Handle # <<>>
                               /\ parsed[1].tweet.Author.AvatarURL # <<>>)
         /\ Places(html, "User-Name", 1) = {} => parsed[1].partial
         /\ Places(html, "Tweet-User-Avatar", 1) = {} => parsed[1].partial
         /\ parseHTML(WithoutOptional(html)).partial = parsed[1].partial

\* A complete record that has no timestamp, quote or verification marker.
C24_Witness ==
    /\ parsed # <<>>
    /\ parsed[1].tweet.Content.Text # <<>>
    /\ ~parsed[1].partial
    /\ WithoutOptional(html) = html

\* C25 (as claimed): with a verification marker the tier follows the hint,
\* in any letter case: none gives blue, gold or organization gives gold,
\* gray or government gives gray.
C25_TierFollowsHint ==
    LET Lower(w) == IF w = "GOLD" THEN "gold" ELSE w
        hints == {Lower(w) : w \in {x \in {"gold", "GOLD", "organization",
                                           "gray", "government"} :
                                      ContainsWord(html, x)}}
    IN  (parsed # <<>> /\ Places(html, "icon-verified", 1) # {})
          => /\ hints = {} => parsed[1].tweet.Author.VerifiedType = "blue"
             /\ (hints # {} /\ hints \subseteq {"gold", "organization"})
                   => parsed[1].tweet.Author.VerifiedType = "gold"
             /\ (hints # {} /\ hints \subseteq {"gray", "government"})
                   => parsed[1].tweet.Author.VerifiedType = "gray"

\* C26 (as claimed): the direction is the one of the main text container,
\* rtl when it carries dir="rtl" and ltr when it does not.
C26_DirectionOfTextContainer ==
    (parsed # <<>> /\ Places(html, "tweetText", 1) # {})
      => parsed[1].tweet.Content.Direction =
            IF html[Min(Places(html, "tweetText", 1))].attr = "dir=rtl"
            THEN "rtl" ELSE "ltr"

\* C27 (as claimed): a document with a quote marker yields a quoted tweet,
\* taken from the first text container after the marker; a document without
\* the marker yields none.
C27_OneQuotePerMarker ==
    parsed # <<>>
      => LET marks == Places(html, "quoteTweet", 1)
         IN  /\ marks = {} => parsed[1].tweet.Content.QuotedTweet = <<>>
             /\ (marks # {} /\ Places(html, "tweetText", Min(marks) + 1) # {})
                  => /\ Len(parsed[1].tweet.Content.QuotedTweet) = 1
                     /\ parsed[1].tweet.Content.QuotedTweet[1].Text = stripHTML(
                          html[Min(Places(html, "tweetText", Min(marks) + 1))].body)

\* C21: the four steps run in the order 1, 2, 3, 4, a step starts only after
\* the one before it succeeded, and when a step fails Scrape returns
\* ErrScrapingFailed, no record, and parseHTML is not run.
C21_StepsInOrder ==
    [][/\ \A t \in Threads :
            /\ (pc[t] = "fn" /\ pc'[t] = "fn" /\ call'[t].step # call[t].step)
                 => call'[t].step = call[t].step + 1 /\ fnErr'[t] = "nil"
            /\ (pc[t] # "fn" /\ pc'[t] = "fn") => call'[t].step = 1
            /\ (pc[t] = "fn" /\ pc'[t] = "post" /\ fnErr'[t] = "nil")
                 => call[t].step = 4
       /\ (scraped = <<>> /\ scraped' # <<>> /\ last = "StepError")
            => /\ scraped'[1].err = "ErrScrapingFailed"
               /\ scraped'[1].tweet = <<>>
               /\ parsed' = <<>>]_vars

\* Scrape has returned after one of its steps failed.
C21_Witness ==
    /\ scraped # <<>>
    /\ last = "StepError"
    /\ scraped[1].err = "ErrScrapingFailed"

\* C22 (as claimed): Scrape returns a cancellation as a cancellation error,
\* a failed browser start as a startup error, and ErrScrapingFailed only
\* when a step failed on a healthy session.
C22_TypedErrors ==
    scraped # <<>>
      => /\ last \in {"Canceled", "DeadlineExceeded"}
              => scraped[1].err = "CancelledError"
         /\ last = "StartupError" => scraped[1].err = "StartupError"
         /\ scraped[1].err = "ErrScrapingFailed" => last = "StepError"

\* C23: when the four steps succeeded and the parsed main text is empty
\* Scrape returns ErrTextNotFound and no record; a record that Scrape
\* returns has main text.
C23_NoRecordWithoutText ==
    scraped # <<>>
      => /\ (last = "nil" /\ parsed[1].tweet.Content.Text = <<>>)
              => scraped[1].err = "ErrTextNotFound" /\ scraped[1].tweet = <<>>
         /\ scraped[1].tweet # <<>>
              => /\ scraped[1].err = "nil"
                 /\ scraped[1].tweet[1].Content.Text # <<>>

\* Scrape found the author, but no text.
C23_Witness ==
    /\ scraped # <<>>
    /\ scraped[1].err = "ErrTextNotFound"
    /\ parsed[1].tweet.Author.Name # <<>>
    /\ Places(html, "tweetText", 1) = {}

\* C30 (as claimed): at every instant Get returns (t, true) for a key
\* exactly when the most recent Set of that key stored t at most TTL ago,
\* and (nil, false) otherwise.
C30_GetFollowsLastSet ==
    \A key \in Keys : GetResult(tweets[key], now) = Entitled(key, now)

\* C37: the handle of a parsed record is the one of the name block whenever
\* the name block yields one; the handle of the status link is used only
\* when the name block yields none; the handle is empty, and the record
\* partial, only when both yield none.
C37_HandleFallbackOrder ==
    parsed # <<>> =>
        LET nh == extractNameAndHandle(html)
            link == extractHandleFromURL(html)
            author == parsed[1].tweet.Author
        IN  /\ nh.handle # <<>> => author.Handle = nh.handle
            /\ nh.handle = <<>> => author.Handle = link
            /\ author.Handle = <<>> <=> (nh.handle = <<>> /\ link = <<>>)
            /\ author.Handle = <<>> => parsed[1].partial
            /\ (author.Name # <<>> /\ author.AvatarURL # <<>>
                  /\ parsed[1].partial) => (nh.handle = <<>> /\ link = <<>>)

\* C37 witness: a page with a handle in the name block and a different one
\* in the status link has been parsed, and the name block's handle won.
C37_Witness ==
    /\ parsed # <<>>
    /\ extractNameAndHandle(html).handle = <<"a">>
    /\ extractHandleFromURL(html) = <<"b">>
    /\ parsed[1].tweet.Author.Handle = <<"a">>

\* C40: the verification state of a parsed record is one of the four
\* declared values: without a marker the author is not verified and the
\* tier is "none"; with a marker the author is verified and the tier is
\* one of "blue", "gold", "gray".
C40_VerificationDeclared ==
    parsed # <<>> =>
        LET author == parsed[1].tweet.Author
        IN  IF Places(html, "icon-verified", 1) = {}
            THEN ~author.Verified /\ author.VerifiedType = "none"
            ELSE author.Verified
                   /\ author.VerifiedType \in {"blue", "gold", "gray"}

\* C38: a Get that found an expired entry never removes a freshly stored
\* one: when the Get deletes its key, the entry the key holds at that moment
\* is expired (or the key is already gone), so a Set that ran in between
\* keeps its entry.
C38_GetDeletesOnlyExpired ==
    [][(reader # <<>> /\ reader' = <<>> /\ tweets[reader[1]] # <<>>)
          => Expired(tweets[reader[1]][1], now)]_vars

\* C31: Execute consults the cache before the scraper: when the cache
\* holds an unexpired record for (username, id) as the call looks it up,
\* the call returns that record with no error and without invoking the
\* scraper; the scraper is reached only after a miss.
C31_CacheBeforeScraper ==
    [][(uc.pc = "get" /\ uc' # uc) =>
          LET loaded == tweets[UcKey]
          IN  IF loaded # <<>> /\ ~Expired(loaded[1], now)
              THEN /\ uc'.pc = "idle" /\ ~uc'.scraped
                   /\ scrapeOut' = scrapeOut
                   /\ ret' = <<[tweet |-> <<loaded[1].tweet>>,
                                err |-> "nil"]>>
              ELSE uc'.pc \in {"delete", "scrape"} /\ ret' = <<>>]_vars

\* C31 witness: a call has returned a record that an earlier call scraped
\* and stored, without scraping itself.
C31_Witness ==
    /\ uc.pc = "idle" /\ uc.username # <<>> /\ ~uc.scraped
    /\ scrapeOut # <<>>
    /\ ret # <<>> /\ ret[1].err = "nil"
    /\ tweets[UcKey] # <<>> /\ ret[1].tweet = <<tweets[UcKey][1].tweet>>

\* C32: the cache is populated only by successful scrapes: a scrape error
\* after a miss stores nothing and is returned as it is, with no record; a
\* successful scrape is followed by storing its record under the call's
\* (username, id) and returning it; no other step stores an entry.
C32_OnlySuccessStored ==
    [][/\ (uc.pc = "scrape" /\ uc' # uc) =>
             IF scrapeOut'[1].in.err # "nil"
             THEN /\ tweets' = tweets
                  /\ uc'.pc = "idle"
                  /\ ret' = <<[tweet |-> <<>>, err |-> scrapeOut'[1].in.err]>>
             ELSE uc'.pc = "set" /\ tweets' = tweets
       /\ (uc.pc = "set" /\ uc' # uc) =>
             /\ scrapeOut[1].out.err = "nil"
             /\ tweets'[UcKey] # <<>>
             /\ tweets'[UcKey][1].tweet = scrapeOut[1].out.tweet[1]
             /\ tweets'[UcKey][1].expiresAt = now + TTL
             /\ ret' = <<[tweet |-> scrapeOut[1].out.tweet, err |-> "nil"]>>
       /\ \A key \in Keys :
             (tweets'[key] # tweets[key] /\ tweets'[key] # <<>>)
                 => uc.pc = "set" /\ key = UcKey]_vars

\* C32 witness: a call has returned a scrape error and left its key
\* without an entry, while an earlier successful call's record is stored.
C32_Witness ==
    /\ uc.pc = "idle" /\ uc.scraped
    /\ ret # <<>> /\ ret[1].err = "ErrTextNotFound" /\ ret[1].tweet = <<>>
    /\ tweets[UcKey] = <<>>
    /\ \E key \in Keys : tweets[key] # <<>>

\* C36: ScrapeTweetUseCase.Execute returns, on success, the scraper's
\* record with Username set to the supplied username and URL set to
\* "https://x.com/{username}/status/{id}", and on a scraper error that
\* same error and no record.
C36_UsernameAndURLSet ==
    scrapeOut # <<>> =>
        LET c == scrapeOut[1]
        IN  IF c.in.err = "nil"
            THEN /\ c.out.err = "nil"
                 /\ Len(c.out.tweet) = 1
                 /\ c.out.tweet[1].Username = c.username
                 /\ c.out.tweet[1].URL =
                      <<"https://x.com/">> \o c.username
                          \o <<"/status/">> \o c.tweetID
                 /\ c.out.tweet[1].Partial = c.in.tweet[1].Partial
            ELSE c.out.err = c.in.err /\ c.out.tweet = <<>>

\* C36 witness: a scrape of tweet 2 of user u has succeeded.
C36_Witness ==
    /\ scrapeOut # <<>>
    /\ scrapeOut[1].out.err = "nil"
    /\ scrapeOut[1].out.tweet[1].URL =
         <<"https://x.com/", "u", "/status/", "2">>

\* C33: the caller consults the rate limiter before it invokes the
\* pipeline: a pipeline call is started for a client only while CanScrape
\* allows the client, so a client that has recorded Limit scrapes within
\* the window is refused.
C33_RefusedOverLimit ==
    [][\A ip \in Clients :
          served'[ip] # served[ip] => CanScrape(scrapes, ip, now)]_vars

\* C34: Close flushes: when Close returns the worker has stopped, and every
\* entry that a completed Send had put into the queue before the Close
\* call began has been delivered exactly once, unless an overflowing Send
\* discarded it, and is not in the queue.
C34_CloseFlushes ==
    closer.pc = "returned" =>
        /\ worker.pc = "exited"
        /\ \A e \in closer.before :
              /\ fate[e] \in {"delivered", "discarded", "dropped"}
              /\ fate[e] = "delivered" => delivered[e] = 1

\* C35: with Send calls and the worker only (no Close), every entry is
\* accounted for once the queue is drained (deliveries plus DroppedCount is
\* the number of Send calls), and a Send that found the queue full ends
\* with its own entry in the queue: the new entry is never the one dropped.
C35_SendAccounted ==
    (closer.pc = "idle" /\ closed = 0) =>
        /\ ((\A s \in Senders : sender[s].pc = "idle")
              /\ entries = <<>> /\ worker.pc = "select")
             => DeliveredUpTo(MaxSends) + dropped = sent
        /\ \A e \in EntryIDs : fate[e] # "rejected"

\* C39: no entry is left undelivered in the queue once Close has returned:
\* whatever Send had started, its entry is delivered, counted as dropped or
\* refused, or its Send is still running.
C39_NothingLeftQueued ==
    closer.pc = "returned" => \A e \in EntryIDs : fate[e] # "queued"
====
